---- MODULE Spec2Model ----
(***************************************************************************)
(* conflubot: the retrieval-augmented answer pipeline.                     *)
(*                                                                         *)
(* Modelled operations:                                                    *)
(*   - ask_claude            (src/src/ask_claude.py): retry loop with      *)
(*                           exponential backoff around the model call;    *)
(*   - build_prompt          (src/src/ask_claude.py): prompt rendering of  *)
(*                           the command-line pipeline;                    *)
(*   - call_claude_throttled (src/main.py): throttled retry loop;          *)
(*   - ask                   (src/main.py): the POST /ask endpoint, with   *)
(*                           verify_api_key and generic_exception_handler. *)
(*                                                                         *)
(* Time is counted in tenths of a second, so that the jitter               *)
(* random.uniform(0.1, 0.5) of call_claude_throttled has integer values.   *)
(***************************************************************************)
EXTENDS Integers, Sequences, FiniteSets, TLC

VARIABLES
    op,          \* the operation in progress: "none", "ask", "cli", "ask_claude", "throttled"
    pc,          \* position of the outer pipeline: "idle", "retrieve", "answering", "responded"
    request,     \* the /ask request (question, top_k, x_api_key)
    hits,        \* payloads returned by retrieval, in retrieval order
    prompt,      \* the prompt handed to the answer operation
    response,    \* the HTTP response of /ask
    st,          \* state of the answer operation: Idle, Throttle, Attempting, Backoff, Done, Failed
    maxRetries,  \* max_retries / retries argument of the answer operation
    delay,       \* delay argument of call_claude_throttled, in seconds
    attempt,     \* loop variable of the retry loop (0-based, as in range())
    trace,       \* history: backend calls (with their outcome) and sleeps, in order
    slept,       \* history: total time passed to time.sleep, in tenths of a second
    result,      \* value returned by the answer operation
    raised,      \* exception raised inside the operation in progress
    prevFail     \* history: body of the last 500 response of an earlier /ask request

vars == <<op, pc, request, hits, prompt, response, st, maxRetries, delay,
          attempt, trace, slept, result, raised, prevFail>>

(***************************************************************************)
(* Bounds of the model.                                                    *)
(***************************************************************************)
MaxRetries == 3     \* largest max_retries / retries argument of a direct call
MaxHits == 2        \* largest number of hits retrieval returns

(***************************************************************************)
(* Program constants.                                                      *)
(***************************************************************************)
DefaultMaxRetries == 3   \* ask_claude(prompt, max_retries=3)
DefaultRetries == 3      \* call_claude_throttled(prompt, delay=2, retries=3)
DefaultDelay == 2        \* call_claude_throttled(prompt, delay=2, retries=3)
OverloadedStatus == 529  \* getattr(e, "status_code", None) == 529
BackoffBase == 2         \* wait_time = 2 ** attempt
JitterMin == 1           \* random.uniform(0.1, 0.5), in tenths of a second
JitterMax == 5
DebugLimit == 3          \* context_results[:3]

API_KEY == "secret"      \* os.getenv("API_KEY")

Tenths(seconds) == 10 * seconds

RECURSIVE Pow(_, _)
Pow(b, n) == IF n <= 0 THEN 1 ELSE b * Pow(b, n - 1)

Min(a, b) == IF a <= b THEN a ELSE b

(***************************************************************************)
(* Texts, backend outcomes and exceptions.                                 *)
(***************************************************************************)
\* A text is a sequence of pieces; " " is surrounding whitespace.
Texts == {<<"answer">>, <<" ", "answer", " ">>}

RECURSIVE LStrip(_)
LStrip(t) == IF t # <<>> /\ Head(t) = " " THEN LStrip(Tail(t)) ELSE t

RECURSIVE RStrip(_)
RStrip(t) ==
    IF t # <<>> /\ t[Len(t)] = " " THEN RStrip(SubSeq(t, 1, Len(t) - 1)) ELSE t

\* str.strip()
Strip(t) == RStrip(LStrip(t))

ErrMsgs == {"m1", "m2"}

NoExc == [kind |-> "none", status |-> 0, msg |-> ""]

\* What one anthropic.messages.create call can do: return a message, raise an
\* APIStatusError (529 is the overload signal, OverloadedError in ask_claude.py),
\* or raise an error that carries no HTTP status (a connection error).
OkOutcome(t) == [kind |-> "ok", status |-> 200, msg |-> "", text |-> t]
OverloadOutcome ==
    [kind |-> "APIStatusError", status |-> OverloadedStatus, msg |-> "Overloaded",
     text |-> <<>>]
StatusOutcome(s, m) == [kind |-> "APIStatusError", status |-> s, msg |-> m, text |-> <<>>]
ConnOutcome(m) == [kind |-> "APIConnectionError", status |-> 0, msg |-> m, text |-> <<>>]
NoOutcome == [kind |-> "none", status |-> 0, msg |-> "", text |-> <<>>]

BackendOutcomes ==
    {OkOutcome(t) : t \in Texts}
    \cup {OverloadOutcome}
    \cup {StatusOutcome(429, m) : m \in ErrMsgs}
    \cup {ConnOutcome(m) : m \in ErrMsgs}

ExcOf(out) == [kind |-> out.kind, status |-> out.status, msg |-> out.msg]

\* except OverloadedError / status_code == 529
IsOverloadedAnyStatus(e) == e.kind = "APIStatusError"
IsOverloaded(e) == e.kind = "APIStatusError" /\ e.status = OverloadedStatus

CallEvent(out) == [ev |-> "call", out |-> out]
SleepEvent == [ev |-> "sleep", out |-> NoOutcome]

NoResult == [kind |-> "unset", text |-> <<>>]
NoneResult == [kind |-> "None", text |-> <<>>]
TextResult(t) == [kind |-> "text", text |-> t]

(***************************************************************************)
(* Retrieval payloads.                                                     *)
(***************************************************************************)
Fields == {"title", "url", "text", "source", "page"}

PayloadA ==
    [title |-> "Title A", url |-> "http://wiki/a", text |-> "text a",
     source |-> "a.pdf", page |-> "1"]
PayloadB ==
    [title |-> "Title B", url |-> "http://wiki/b", text |-> "text b",
     source |-> "b.pdf", page |-> "2"]

Without(p, f) == [g \in (DOMAIN p) \ {f} |-> p[g]]

Payloads == {PayloadA, PayloadB} \cup {Without(PayloadA, f) : f \in Fields}

HitSeqs(k) == UNION {[1..n -> Payloads] : n \in 0..k}

PyNone == "<None>"

\* dict.get(key, default)
Get(p, f, default) == IF f \in DOMAIN p THEN p[f] ELSE default

(***************************************************************************)
(* Pure parts of the pipelines.                                            *)
(***************************************************************************)
\* build_prompt of the command-line pipeline: every payload field is read with
\* .get and a default.
BuildPrompt(query, context_chunks) ==
    [question |-> query,
     context |-> [i \in DOMAIN context_chunks |->
        [doc |-> i,
         source |-> Get(context_chunks[i], "source", "Unbekannte Quelle"),
         page |-> Get(context_chunks[i], "page", "?"),
         text |-> Get(context_chunks[i], "text", "")]]]

\* The debug loop of ask: res.get('text')[:100] over the first results.
DebugLoopFails(hs) ==
    \E i \in 1..Min(DebugLimit, Len(hs)) : Get(hs[i], "text", PyNone) = PyNone

TypeErrorExc ==
    [kind |-> "TypeError", status |-> 0,
     msg |-> "'NoneType' object is not subscriptable"]

\* str(KeyError(key)) is the repr of the key
KeyErrorExc(key) ==
    [kind |-> "KeyError", status |-> 0,
     msg |-> CASE key = "title" -> "'title'"
               [] key = "url" -> "'url'"
               [] key = "text" -> "'text'"
               [] OTHER -> "'?'"]

\* res[key] for each key of `keys` in order, for each result in order: the
\* results for which some subscript raises KeyError, and the first KeyError.
MissingAt(hs, keys) ==
    {i \in DOMAIN hs : \E j \in DOMAIN keys : keys[j] \notin DOMAIN hs[i]}

FirstKeyError(hs, keys) ==
    LET i == CHOOSE a \in MissingAt(hs, keys) :
                 \A b \in MissingAt(hs, keys) : a <= b
        j == CHOOSE a \in DOMAIN keys :
                 /\ keys[a] \notin DOMAIN hs[i]
                 /\ \A b \in 1..(a - 1) : keys[b] \in DOMAIN hs[i]
    IN  KeyErrorExc(keys[j])

ContextKeys == <<"url", "text">>
SourceKeys == <<"title", "url">>

\* context and user_prompt of ask
UserPrompt(question, context_results) ==
    [question |-> question,
     context |-> [i \in DOMAIN context_results |->
        [url |-> context_results[i].url, text |-> context_results[i].text]]]

\* sources of ask
SourcesFirstOnly(context_results) ==
    [i \in (DOMAIN context_results) \cap {1} |->
        [title |-> context_results[i].title, url |-> context_results[i].url]]
Sources(context_results) ==
    [i \in DOMAIN context_results |->
        [title |-> context_results[i].title, url |-> context_results[i].url]]

(***************************************************************************)
(* HTTP responses.                                                         *)
(***************************************************************************)
NoResponse ==
    [status |-> 0, answer |-> <<>>, sources |-> <<>>, shape |-> "", message |-> <<>>]

AskResponse(answer, sources) ==
    [status |-> 200, answer |-> answer, sources |-> sources,
     shape |-> "AskResponse", message |-> <<>>]

NoInfoAnswer ==
    <<"I couldn't find any relevant information in the knowledge base to answer your question.">>

\* FastAPI's rendering of HTTPException(status_code, detail)
HTTPExceptionResponse(status_code, detail) ==
    [status |-> status_code, answer |-> <<>>, sources |-> <<>>,
     shape |-> "detail", message |-> detail]

\* generic_exception_handler: the message is str(exc)
GenericExceptionResponse(exc) ==
    [status |-> 500, answer |-> <<>>, sources |-> <<>>,
     shape |-> "internal_server_error", message |-> <<exc.msg>>]

\* The except clauses of ask, then the exception handler of the application.
ErrorResponse(e) ==
    IF e.kind = "APIStatusError"
    THEN IF e.status = OverloadedStatus
         THEN HTTPExceptionResponse(503,
                <<"The service is temporarily overloaded. Please try again later.">>)
         ELSE HTTPExceptionResponse(500,
                <<"An unexpected API error occurred: ", e.msg>>)
    ELSE GenericExceptionResponse(e)

Body(r) == [shape |-> r.shape, message |-> r.message]
NoBody == [shape |-> "", message |-> <<>>]

ExhaustedExc ==
    [kind |-> "Exception", status |-> 0, msg |-> "Failed after retries due to overload."]

(***************************************************************************)
(* Initial state: no operation in progress.                                *)
(***************************************************************************)
NoRequest == [question |-> "", top_k |-> 0, x_api_key |-> ""]
NoPrompt == [question |-> "", context |-> <<>>]

Questions == {"q1"}
ApiKeys == {API_KEY, "wrong"}

\* Arguments of a direct call of the answer operation.
RetryValues == (-1)..MaxRetries
DelayValues == {1, DefaultDelay}
DirectPrompt == [question |-> "q1", context |-> <<>>]

Init ==
    /\ op = "none"
    /\ pc = "idle"
    /\ request = NoRequest
    /\ hits = <<>>
    /\ prompt = NoPrompt
    /\ response = NoResponse
    /\ st = "Idle"
    /\ maxRetries = 0
    /\ delay = 0
    /\ attempt = 0
    /\ trace = <<>>
    /\ slept = 0
    /\ result = NoResult
    /\ raised = NoExc
    /\ prevFail = NoBody

(***************************************************************************)
(* ask_claude(prompt, max_retries): src/src/ask_claude.py                  *)
(***************************************************************************)
\* Entry of ask_claude: the for loop over range(max_retries).  With an empty
\* range the loop body never runs and the function falls off its end, which
\* returns None.
EnterAskClaude(p, r) ==
    /\ prompt' = p
    /\ maxRetries' = r
    /\ delay' = 0
    /\ attempt' = 0
    /\ IF r > 0
       THEN st' = "Attempting" /\ result' = result
       ELSE st' = "Done" /\ result' = NoneResult

\* wait_time = 2 ** attempt, in tenths of a second
AskClaudeWaitLinear(a) == Tenths(BackoffBase * a)
AskClaudeWait(a) == Tenths(Pow(BackoffBase, a))

\* A direct call ask_claude(prompt, max_retries).
AskClaudeInvoke ==
    /\ pc = "idle"
    /\ \E r \in RetryValues : EnterAskClaude(DirectPrompt, r)
    /\ op' = "ask_claude"
    /\ pc' = "answering"
    /\ UNCHANGED <<request, hits, response, trace, slept, raised, prevFail>>

\* The command-line pipeline: get_context, build_prompt, ask_claude(prompt).
CliStart ==
    /\ pc = "idle"
    /\ \E q \in Questions, hs \in HitSeqs(MaxHits) :
          /\ hits' = hs
          /\ EnterAskClaude(BuildPrompt(q, hs), DefaultMaxRetries)
    /\ op' = "cli"
    /\ pc' = "answering"
    /\ UNCHANGED <<request, response, trace, slept, raised, prevFail>>

\* One pass of the try block: anthropic.messages.create, then return, or the
\* except OverloadedError clause up to its sleep or its raise; any other
\* exception leaves the function at once.
AskClaudeCall ==
    /\ op \in {"ask_claude", "cli"}
    /\ st = "Attempting"
    /\ \E out \in BackendOutcomes :
          /\ trace' = Append(trace, CallEvent(out))
          /\ IF out.kind = "ok"
             THEN /\ st' = "Done"
                  /\ result' = TextResult(Strip(out.text))
                  /\ raised' = raised
             ELSE IF IsOverloaded(ExcOf(out)) /\ attempt < maxRetries - 1
             THEN /\ st' = "Backoff"
                  /\ UNCHANGED <<result, raised>>
             ELSE /\ st' = "Failed"
                  /\ raised' = ExcOf(out)
                  /\ result' = result
    /\ UNCHANGED <<op, pc, request, hits, prompt, response, maxRetries, delay,
                   attempt, slept, prevFail>>

\* time.sleep(wait_time), then the next iteration of the loop.
AskClaudeBackoff ==
    /\ op \in {"ask_claude", "cli"}
    /\ st = "Backoff"
    /\ slept' = slept + AskClaudeWait(attempt)
    /\ trace' = Append(trace, SleepEvent)
    /\ attempt' = attempt + 1
    /\ st' = "Attempting"
    /\ UNCHANGED <<op, pc, request, hits, prompt, response, maxRetries, delay,
                   result, raised, prevFail>>

(***************************************************************************)
(* call_claude_throttled(prompt, delay, retries): src/main.py              *)
(***************************************************************************)
\* Entry of call_claude_throttled: the for loop over range(retries); with an
\* empty range the raise after the loop is reached at once.
EnterThrottled(p, d, r) ==
    /\ prompt' = p
    /\ maxRetries' = r
    /\ delay' = d
    /\ attempt' = 0
    /\ IF r > 0
       THEN st' = "Throttle" /\ raised' = raised
       ELSE st' = "Failed" /\ raised' = ExhaustedExc

\* wait = delay + attempt + random.uniform(0.1, 0.5), in tenths of a second
ThrottledWait(d, a, jitter) == Tenths(d) + Tenths(a) + jitter

\* A direct call call_claude_throttled(prompt, delay, retries).
ThrottledInvoke ==
    /\ pc = "idle"
    /\ \E d \in DelayValues, r \in RetryValues : EnterThrottled(DirectPrompt, d, r)
    /\ op' = "throttled"
    /\ pc' = "answering"
    /\ UNCHANGED <<request, hits, response, trace, slept, result, prevFail>>

\* time.sleep(delay) at the head of the try block.
ThrottledSleep ==
    /\ op \in {"throttled", "ask"}
    /\ st = "Throttle"
    /\ slept' = slept + Tenths(delay)
    /\ trace' = Append(trace, SleepEvent)
    /\ st' = "Attempting"
    /\ UNCHANGED <<op, pc, request, hits, prompt, response, maxRetries, delay,
                   attempt, result, raised, prevFail>>

\* anthropic.messages.create, then return, or the except APIStatusError clause
\* up to its sleep or its raise; any other exception leaves the function.
ThrottledCall ==
    /\ op \in {"throttled", "ask"}
    /\ st = "Attempting"
    /\ \E out \in BackendOutcomes :
          /\ trace' = Append(trace, CallEvent(out))
          /\ IF out.kind = "ok"
             THEN /\ st' = "Done"
                  /\ result' = TextResult(out.text)
                  /\ raised' = raised
             ELSE IF IsOverloaded(ExcOf(out))
             THEN /\ st' = "Backoff"
                  /\ UNCHANGED <<result, raised>>
             ELSE /\ st' = "Failed"
                  /\ raised' = ExcOf(out)
                  /\ result' = result
    /\ UNCHANGED <<op, pc, request, hits, prompt, response, maxRetries, delay,
                   attempt, slept, prevFail>>

\* time.sleep(wait), then the next iteration of the loop, or, after the last
\* iteration, the raise that follows the loop.
ThrottledBackoff ==
    /\ op \in {"throttled", "ask"}
    /\ st = "Backoff"
    /\ \E jitter \in JitterMin..JitterMax :
          slept' = slept + ThrottledWait(delay, attempt, jitter)
    /\ trace' = Append(trace, SleepEvent)
    /\ attempt' = attempt + 1
    /\ IF attempt + 1 < maxRetries
       THEN st' = "Throttle" /\ raised' = raised
       ELSE st' = "Failed" /\ raised' = ExhaustedExc
    /\ UNCHANGED <<op, pc, request, hits, prompt, response, maxRetries, delay,
                   result, prevFail>>

(***************************************************************************)
(* History read-outs of one invocation of the answer operation.            *)
(***************************************************************************)
IsCall(e) == e.ev = "call"
Calls == SelectSeq(trace, IsCall)
NumCalls == Len(Calls)
AllCallsOverloaded == \A i \in DOMAIN Calls : Calls[i].out = OverloadOutcome

\* The operation failed and every backend call it made reported overload.
RetryExhausted == st = "Failed" /\ AllCallsOverloaded

(***************************************************************************)
(* POST /ask: src/main.py                                                  *)
(***************************************************************************)
\* An exception leaves the try block of ask.
AskFails(e) ==
    /\ raised' = e
    /\ response' = ErrorResponse(e)
    /\ pc' = "responded"

\* if not context_results
NoContextNever(context_results) == FALSE
NoContext(context_results) == context_results = <<>>

\* The request arrives: the verify_api_key dependency.
AskRequest ==
    /\ pc = "idle"
    /\ \E q \in Questions, k \in 0..MaxHits, key \in ApiKeys :
          /\ request' = [question |-> q, top_k |-> k, x_api_key |-> key]
          /\ IF key # API_KEY
             THEN /\ response' = HTTPExceptionResponse(401, <<"Invalid API Key">>)
                  /\ pc' = "responded"
             ELSE /\ response' = response
                  /\ pc' = "retrieve"
    /\ op' = "ask"
    /\ UNCHANGED <<hits, prompt, st, maxRetries, delay, attempt, trace, slept,
                   result, raised, prevFail>>

\* Steps 1 and 2 of ask: search_qdrant, the debug loop, the empty-context
\* return, the prompt, and the entry of call_claude_throttled(user_prompt).
AskRetrieve ==
    /\ op = "ask"
    /\ pc = "retrieve"
    /\ \/ \E m \in ErrMsgs :
             /\ AskFails([kind |-> "RetrievalError", status |-> 0, msg |-> m])
             /\ UNCHANGED <<hits, prompt, st, maxRetries, delay, attempt>>
       \/ \E hs \in HitSeqs(request.top_k) :
             /\ hits' = hs
             /\ IF DebugLoopFails(hs)
                THEN /\ AskFails(TypeErrorExc)
                     /\ UNCHANGED <<prompt, st, maxRetries, delay, attempt>>
                ELSE IF NoContext(hs)
                THEN /\ response' = AskResponse(NoInfoAnswer, <<>>)
                     /\ pc' = "responded"
                     /\ UNCHANGED <<prompt, st, maxRetries, delay, attempt, raised>>
                ELSE IF MissingAt(hs, ContextKeys) # {}
                THEN /\ AskFails(FirstKeyError(hs, ContextKeys))
                     /\ UNCHANGED <<prompt, st, maxRetries, delay, attempt>>
                ELSE /\ EnterThrottled(UserPrompt(request.question, hs),
                                       DefaultDelay, DefaultRetries)
                     /\ pc' = "answering"
                     /\ response' = response
    /\ UNCHANGED <<op, request, trace, slept, result, prevFail>>

\* Steps 3 and 4 of ask, once call_claude_throttled has returned or raised:
\* the sources and the response, or the except clauses and the handler.
AskRespond ==
    /\ op = "ask"
    /\ pc = "answering"
    /\ st \in {"Done", "Failed"}
    /\ IF st = "Failed"
       THEN AskFails(raised)
       ELSE IF MissingAt(hits, SourceKeys) # {}
       THEN AskFails(FirstKeyError(hits, SourceKeys))
       ELSE /\ response' = AskResponse(result.text, Sources(hits))
            /\ pc' = "responded"
            /\ raised' = raised
    /\ UNCHANGED <<op, request, hits, prompt, st, maxRetries, delay, attempt,
                   trace, slept, result, prevFail>>

(***************************************************************************)
(* The operation in progress has ended; the next one starts from scratch.  *)
(***************************************************************************)
Finished ==
    \/ op = "ask" /\ pc = "responded"
    \/ op \in {"cli", "ask_claude", "throttled"} /\ st \in {"Done", "Failed"}

\* An /ask request that failed, but neither on its API key nor by exhausting
\* the retries of the answer operation.
OtherFailure ==
    /\ op = "ask"
    /\ pc = "responded"
    /\ response.status \notin {200, 401}
    /\ ~RetryExhausted

Reset ==
    /\ Finished
    /\ prevFail' = IF OtherFailure THEN Body(response) ELSE prevFail
    /\ op' = "none"
    /\ pc' = "idle"
    /\ request' = NoRequest
    /\ hits' = <<>>
    /\ prompt' = NoPrompt
    /\ response' = NoResponse
    /\ st' = "Idle"
    /\ maxRetries' = 0
    /\ delay' = 0
    /\ attempt' = 0
    /\ trace' = <<>>
    /\ slept' = 0
    /\ result' = NoResult
    /\ raised' = NoExc

Next ==
    \/ AskClaudeInvoke
    \/ CliStart
    \/ AskClaudeCall
    \/ AskClaudeBackoff
    \/ ThrottledInvoke
    \/ ThrottledSleep
    \/ ThrottledCall
    \/ ThrottledBackoff
    \/ AskRequest
    \/ AskRetrieve
    \/ AskRespond
    \/ Reset

Spec == Init /\ [][Next]_vars

TypeOK ==
    /\ op \in {"none", "ask", "cli", "ask_claude", "throttled"}
    /\ pc \in {"idle", "retrieve", "answering", "responded"}
    /\ st \in {"Idle", "Throttle", "Attempting", "Backoff", "Done", "Failed"}
    /\ attempt \in 0..(MaxRetries + DefaultRetries)
    /\ slept \in Nat
    /\ Len(hits) <= MaxHits

(***************************************************************************)
(* Claims.                                                                 *)
(***************************************************************************)
Terminal == st \in {"Done", "Failed"}
LastCall == Calls[NumCalls]
OverloadedExc == ExcOf(OverloadOutcome)
RunsAskClaude == op \in {"ask_claude", "cli"}
RunsThrottled == op \in {"throttled", "ask"}

\* C1: with maxRetries >= 1 and a backend that reports overload on every
\* call, the answer operation ends Failed after exactly maxRetries backend
\* calls, and the error it raises is the overload error, not a generic one.
C1_ExhaustionRaisesOverloaded ==
    (Terminal /\ maxRetries >= 1 /\ AllCallsOverloaded)
        => /\ st = "Failed"
           /\ NumCalls = maxRetries
           /\ raised = OverloadedExc

\* C2: a backend error other than the overload signal ends the operation at
\* once: it is the last event of the invocation (no sleep and no call follows
\* it), exactly one call was made in that attempt, and the operation has
\* failed with that very error.
C2_NonOverloadErrorFailsAtOnce ==
    \A i \in DOMAIN trace :
        (/\ trace[i].ev = "call"
         /\ trace[i].out.kind # "ok"
         /\ trace[i].out # OverloadOutcome)
            => /\ i = Len(trace)
               /\ st = "Failed"
               /\ raised = ExcOf(trace[i].out)
               /\ NumCalls = attempt + 1

C2_Witness ==
    /\ st = "Failed"
    /\ NumCalls = 2
    /\ maxRetries = 3
    /\ Calls[1].out = OverloadOutcome
    /\ LastCall.out = StatusOutcome(429, "m1")

\* Sum of the backoff steps after attempts 1..n, in tenths of a second, with
\* the step after attempt k being 2^k seconds.
RECURSIVE PowerStepSum(_)
PowerStepSum(n) ==
    IF n <= 0 THEN 0 ELSE Tenths(Pow(2, n)) + PowerStepSum(n - 1)

\* The least step the code takes after attempt k (numbered from 1):
\* 2^(k-1) seconds in ask_claude, delay + (k-1) + 0.1 seconds in
\* call_claude_throttled.
CodeStep(k) ==
    IF RunsAskClaude
    THEN Tenths(Pow(BackoffBase, k - 1))
    ELSE Tenths(delay) + Tenths(k - 1) + JitterMin

RECURSIVE CodeStepSum(_)
CodeStepSum(n) == IF n <= 0 THEN 0 ELSE CodeStep(n) + CodeStepSum(n - 1)

\* C3 as stated: when the first N-1 calls report overload and the N-th
\* succeeds, the operation returns the success text and has slept at least
\* the sum of the first N-1 steps, the step after attempt k being 2^k seconds.
C3_SleptAtLeastPowersOfTwo ==
    (st = "Done" /\ NumCalls >= 1)
        => /\ result.kind = "text"
           /\ Strip(result.text) = Strip(LastCall.out.text)
           /\ slept >= PowerStepSum(NumCalls - 1)

\* C3 as amended: when the first N-1 calls report overload and the N-th
\* succeeds, the operation returns the success text (trimmed by ask_claude,
\* as received by call_claude_throttled) and has slept at least the sum of
\* the first N-1 backoff steps, the step after attempt k being 2^(k-1)
\* seconds in ask_claude and at least delay + (k-1) + 0.1 seconds in
\* call_claude_throttled.
C3_SleptAtLeastCodeSteps ==
    (st = "Done" /\ NumCalls >= 1)
        => /\ \A i \in 1..(NumCalls - 1) : Calls[i].out = OverloadOutcome
           /\ LastCall.out.kind = "ok"
           /\ result = TextResult(IF RunsAskClaude
                                  THEN Strip(LastCall.out.text)
                                  ELSE LastCall.out.text)
           /\ slept >= CodeStepSum(NumCalls - 1)

C3_Witness ==
    /\ op = "ask_claude"
    /\ st = "Done"
    /\ NumCalls = 3
    /\ slept = 30
    /\ LastCall.out.text = <<" ", "answer", " ">>

\* C4: when call_claude_throttled exhausts its retries because every backend
\* call reported overload, the /ask response has status 503.
C4_ExhaustionAnswers503 ==
    (op = "ask" /\ pc = "responded" /\ RetryExhausted /\ NumCalls >= 1)
        => response.status = 503

\* Retrieval of the /ask request in progress has returned its hits.
Retrieved ==
    /\ op = "ask"
    /\ pc \in {"answering", "responded"}
    /\ response.status # 401
    /\ raised.kind # "RetrievalError"

\* C5: when retrieval returns zero passages, the /ask response is the fixed
\* "insufficient information" answer with no sources, and the request makes
\* no backend call and takes no sleep.
C5_EmptyContextShortCircuits ==
    (Retrieved /\ hits = <<>>)
        => /\ pc = "responded"
           /\ response = AskResponse(NoInfoAnswer, <<>>)
           /\ st = "Idle"
           /\ trace = <<>>
           /\ slept = 0

C5_Witness ==
    /\ Retrieved
    /\ hits = <<>>
    /\ request.top_k = MaxHits
    /\ response.status = 200

\* C6: the sources of a successful /ask response are the {title, url} pairs
\* of the retrieved passages, one per passage and in retrieval order, and the
\* passages rendered into the prompt are the same passages.
C6_SourcesAreRetrievedPassages ==
    (op = "ask" /\ pc = "responded" /\ response.status = 200)
        => /\ Len(response.sources) = Len(hits)
           /\ \A i \in DOMAIN hits :
                 /\ {"title", "url", "text"} \subseteq DOMAIN hits[i]
                 /\ response.sources[i] =
                        [title |-> hits[i].title, url |-> hits[i].url]
           /\ hits # <<>> =>
                 /\ Len(prompt.context) = Len(hits)
                 /\ \A i \in DOMAIN hits :
                       /\ prompt.context[i].url = response.sources[i].url
                       /\ prompt.context[i].text = hits[i].text

C6_Witness ==
    /\ op = "ask"
    /\ pc = "responded"
    /\ response.status = 200
    /\ Len(hits) = 2
    /\ hits[1].title = "Title B"
    /\ hits[2].title = "Title A"
    /\ response.sources[1].url = "http://wiki/b"

\* C7: an /ask request that fails, but neither on its API key nor by retry
\* exhaustion, gets status 500 and a body that does not depend on the text
\* of the internal exception: the same body as every earlier such failure.
C7_FailureBodyIsGeneric ==
    OtherFailure
        => /\ response.status = 500
           /\ prevFail # NoBody => Body(response) = prevFail

\* C8: a retrieved payload that lacks a metadata field does not make the
\* request fail: unless retrieval or the answer operation itself failed, the
\* request completes with an answer.
C8_MissingFieldIsDefaulted ==
    (/\ Retrieved
     /\ pc = "responded"
     /\ st # "Failed"
     /\ \E i \in DOMAIN hits : DOMAIN hits[i] # Fields)
        => response.status = 200

\* C9: the answer operation sleeps only in Backoff: every sleep comes directly
\* after a backend call that reported overload, never before the first call,
\* and every sleep is followed by another backend call.
C9_SleepOnlyInBackoff ==
    \A i \in DOMAIN trace :
        trace[i].ev = "sleep"
            => /\ i > 1
               /\ trace[i - 1] = CallEvent(OverloadOutcome)
               /\ i < Len(trace) => trace[i + 1].ev = "call"
               /\ Terminal => i < Len(trace)

\* C10: whatever max_retries is (0 and negative values included), the answer
\* operation ends either Done with the model's text as its result, or Failed
\* with an error raised: it never returns without a text.
C10_EndsWithTextOrError ==
    /\ st = "Done" => result.kind = "text"
    /\ st = "Failed" => raised # NoExc /\ result = NoResult

(***************************************************************************)
(* Concurrent /ask requests.                                               *)
(*                                                                         *)
(* ask is a plain def, so the server runs each request in its own thread.  *)
(* In ConcSpec every variable holds one value per request, and a step is   *)
(* one step of one request, in any interleaving.  The threads share only   *)
(* the module-level clients and configuration, which no request writes.    *)
(***************************************************************************)
NumRequests == 2    \* number of requests in flight together

Reqs == 1..NumRequests

\* Inputs of the concurrent requests.
ConcHitSeqs == {<<>>, <<PayloadA>>}
ConcOutcomes == {OkOutcome(<<"answer">>), OverloadOutcome, StatusOutcome(429, "m1")}
ConcJitter == {JitterMin, JitterMax}
ConcRetrievalError == [kind |-> "RetrievalError", status |-> 0, msg |-> "m1"]

\* `attempt` is a local of call_claude_throttled: the cell the loop of request
\* r reads and writes belongs to that invocation.
AttemptCellShared(r) == 1
AttemptCell(r) == r

ConcInit ==
    /\ op = [r \in Reqs |-> "none"]
    /\ pc = [r \in Reqs |-> "idle"]
    /\ request = [r \in Reqs |-> NoRequest]
    /\ hits = [r \in Reqs |-> <<>>]
    /\ prompt = [r \in Reqs |-> NoPrompt]
    /\ response = [r \in Reqs |-> NoResponse]
    /\ st = [r \in Reqs |-> "Idle"]
    /\ maxRetries = [r \in Reqs |-> 0]
    /\ delay = [r \in Reqs |-> 0]
    /\ attempt = [r \in Reqs |-> 0]
    /\ trace = [r \in Reqs |-> <<>>]
    /\ slept = [r \in Reqs |-> 0]
    /\ result = [r \in Reqs |-> NoResult]
    /\ raised = [r \in Reqs |-> NoExc]
    /\ prevFail = NoBody

\* An exception leaves the try block of ask in request r.
ConcAskFails(r, e) ==
    /\ raised' = [raised EXCEPT ![r] = e]
    /\ response' = [response EXCEPT ![r] = ErrorResponse(e)]
    /\ pc' = [pc EXCEPT ![r] = "responded"]

\* Request r arrives: the verify_api_key dependency.
ConcAskRequest(r) ==
    /\ pc[r] = "idle"
    /\ \E q \in Questions, key \in ApiKeys :
          /\ request' = [request EXCEPT
                ![r] = [question |-> q, top_k |-> 1, x_api_key |-> key]]
          /\ IF key # API_KEY
             THEN /\ response' = [response EXCEPT
                        ![r] = HTTPExceptionResponse(401, <<"Invalid API Key">>)]
                  /\ pc' = [pc EXCEPT ![r] = "responded"]
             ELSE /\ response' = response
                  /\ pc' = [pc EXCEPT ![r] = "retrieve"]
    /\ op' = [op EXCEPT ![r] = "ask"]
    /\ UNCHANGED <<hits, prompt, st, maxRetries, delay, attempt, trace, slept,
                   result, raised, prevFail>>

\* Steps 1 and 2 of ask in request r, up to the entry of
\* call_claude_throttled(user_prompt).
ConcAskRetrieve(r) ==
    /\ op[r] = "ask"
    /\ pc[r] = "retrieve"
    /\ \/ /\ ConcAskFails(r, ConcRetrievalError)
          /\ UNCHANGED <<hits, prompt, st, maxRetries, delay, attempt>>
       \/ \E hs \in ConcHitSeqs :
             /\ hits' = [hits EXCEPT ![r] = hs]
             /\ IF DebugLoopFails(hs)
                THEN /\ ConcAskFails(r, TypeErrorExc)
                     /\ UNCHANGED <<prompt, st, maxRetries, delay, attempt>>
                ELSE IF NoContext(hs)
                THEN /\ response' = [response EXCEPT
                           ![r] = AskResponse(NoInfoAnswer, <<>>)]
                     /\ pc' = [pc EXCEPT ![r] = "responded"]
                     /\ UNCHANGED <<prompt, st, maxRetries, delay, attempt, raised>>
                ELSE IF MissingAt(hs, ContextKeys) # {}
                THEN /\ ConcAskFails(r, FirstKeyError(hs, ContextKeys))
                     /\ UNCHANGED <<prompt, st, maxRetries, delay, attempt>>
                ELSE /\ prompt' = [prompt EXCEPT
                           ![r] = UserPrompt(request[r].question, hs)]
                     /\ maxRetries' = [maxRetries EXCEPT ![r] = DefaultRetries]
                     /\ delay' = [delay EXCEPT ![r] = DefaultDelay]
                     /\ attempt' = [attempt EXCEPT ![AttemptCell(r)] = 0]
                     /\ st' = [st EXCEPT ![r] = "Throttle"]
                     /\ pc' = [pc EXCEPT ![r] = "answering"]
                     /\ UNCHANGED <<response, raised>>
    /\ UNCHANGED <<op, request, trace, slept, result, prevFail>>

\* time.sleep(delay) in the thread of request r.
ConcThrottledSleep(r) ==
    /\ op[r] = "ask"
    /\ st[r] = "Throttle"
    /\ slept' = [slept EXCEPT ![r] = @ + Tenths(delay[r])]
    /\ trace' = [trace EXCEPT ![r] = Append(@, SleepEvent)]
    /\ st' = [st EXCEPT ![r] = "Attempting"]
    /\ UNCHANGED <<op, pc, request, hits, prompt, response, maxRetries, delay,
                   attempt, result, raised, prevFail>>

\* The backend call of request r and what follows it up to the next sleep.
ConcThrottledCall(r) ==
    /\ op[r] = "ask"
    /\ st[r] = "Attempting"
    /\ \E out \in ConcOutcomes :
          /\ trace' = [trace EXCEPT ![r] = Append(@, CallEvent(out))]
          /\ IF out.kind = "ok"
             THEN /\ st' = [st EXCEPT ![r] = "Done"]
                  /\ result' = [result EXCEPT ![r] = TextResult(out.text)]
                  /\ raised' = raised
             ELSE IF IsOverloaded(ExcOf(out))
             THEN /\ st' = [st EXCEPT ![r] = "Backoff"]
                  /\ UNCHANGED <<result, raised>>
             ELSE /\ st' = [st EXCEPT ![r] = "Failed"]
                  /\ raised' = [raised EXCEPT ![r] = ExcOf(out)]
                  /\ result' = result
    /\ UNCHANGED <<op, pc, request, hits, prompt, response, maxRetries, delay,
                   attempt, slept, prevFail>>

\* time.sleep(wait) in the thread of request r, then the next iteration of its
\* loop, or the raise that follows the loop.
ConcThrottledBackoff(r) ==
    /\ op[r] = "ask"
    /\ st[r] = "Backoff"
    /\ \E jitter \in ConcJitter :
          slept' = [slept EXCEPT
             ![r] = @ + ThrottledWait(delay[r], attempt[AttemptCell(r)], jitter)]
    /\ trace' = [trace EXCEPT ![r] = Append(@, SleepEvent)]
    /\ attempt' = [attempt EXCEPT ![AttemptCell(r)] = @ + 1]
    /\ IF attempt[AttemptCell(r)] + 1 < maxRetries[r]
       THEN st' = [st EXCEPT ![r] = "Throttle"] /\ raised' = raised
       ELSE /\ st' = [st EXCEPT ![r] = "Failed"]
            /\ raised' = [raised EXCEPT ![r] = ExhaustedExc]
    /\ UNCHANGED <<op, pc, request, hits, prompt, response, maxRetries, delay,
                   result, prevFail>>

\* Steps 3 and 4 of ask in request r.
ConcAskRespond(r) ==
    /\ op[r] = "ask"
    /\ pc[r] = "answering"
    /\ st[r] \in {"Done", "Failed"}
    /\ IF st[r] = "Failed"
       THEN ConcAskFails(r, raised[r])
       ELSE IF MissingAt(hits[r], SourceKeys) # {}
       THEN ConcAskFails(r, FirstKeyError(hits[r], SourceKeys))
       ELSE /\ response' = [response EXCEPT
                  ![r] = AskResponse(result[r].text, Sources(hits[r]))]
            /\ pc' = [pc EXCEPT ![r] = "responded"]
            /\ raised' = raised
    /\ UNCHANGED <<op, request, hits, prompt, st, maxRetries, delay, attempt,
                   trace, slept, result, prevFail>>

ConcNext ==
    \E r \in Reqs :
        \/ ConcAskRequest(r)
        \/ ConcAskRetrieve(r)
        \/ ConcThrottledSleep(r)
        \/ ConcThrottledCall(r)
        \/ ConcThrottledBackoff(r)
        \/ ConcAskRespond(r)

ConcSpec == ConcInit /\ [][ConcNext]_vars

\* Everything request r owns.
Local(r) ==
    <<op[r], pc[r], request[r], hits[r], prompt[r], response[r], st[r],
      maxRetries[r], delay[r], attempt[r], trace[r], slept[r], result[r],
      raised[r]>>

CallsOf(r) == SelectSeq(trace[r], IsCall)

\* What the events of request r alone determine, three events per completed
\* attempt (sleep, call, sleep): the attempt number, the state of the retry
\* loop, and the least and the greatest time slept.
OwnAttempt(r) == Len(trace[r]) \div 3

OwnState(r) ==
    LET n == Len(trace[r])
    IN  IF n % 3 = 1 THEN "Attempting"
        ELSE IF n % 3 = 2
        THEN IF trace[r][n].out.kind = "ok" THEN "Done"
             ELSE IF trace[r][n].out = OverloadOutcome THEN "Backoff"
             ELSE "Failed"
        ELSE IF OwnAttempt(r) < maxRetries[r] THEN "Throttle" ELSE "Failed"

RECURSIVE LinearSum(_)
LinearSum(n) == IF n <= 0 THEN 0 ELSE (n - 1) + LinearSum(n - 1)

OwnSlept(r, jitter) ==
    LET k == OwnAttempt(r)
        pre == (Len(trace[r]) + 2) \div 3
    IN  (pre + k) * Tenths(delay[r]) + Tenths(LinearSum(k)) + k * jitter

\* The inputs and backend outcomes of request r.
OwnHistory(r) == <<request[r], hits[r], trace[r], raised[r].kind = "RetrievalError">>

RetryStateIsOwn ==
    \A r \in Reqs :
        /\ Len(CallsOf(r)) <= maxRetries[r]
        /\ st[r] # "Idle" =>
              /\ st[r] = OwnState(r)
              /\ attempt[r] = OwnAttempt(r)
              /\ slept[r] >= OwnSlept(r, JitterMin)
              /\ slept[r] <= OwnSlept(r, JitterMax)
        /\ st[r] = "Idle" => trace[r] = <<>> /\ slept[r] = 0

OutcomeIsOwn ==
    \A r, s \in Reqs :
        (pc[r] = "responded" /\ pc[s] = "responded" /\ OwnHistory(r) = OwnHistory(s))
            => response[r] = response[s]

OneRequestPerStep ==
    \E r \in Reqs : \A s \in Reqs \ {r} : Local(s)' = Local(s)

\* C11: with several /ask requests interleaved in any order, each request has
\* its own retry state: its number of backend calls (at most maxRetries), its
\* attempt number, the state of its retry loop and the time it slept are
\* determined by its own events alone; requests with the same inputs and the
\* same backend outcomes get the same response whatever the others did; and
\* every step, a failure included, changes nothing of any other request.
C11_RequestsAreIsolated ==
    /\ [](RetryStateIsOwn /\ OutcomeIsOwn)
    /\ [][OneRequestPerStep]_vars

\* One request has failed by exhausting its retries while another, whose
\* first call was overloaded too, has been answered on its second call.
C11_Witness ==
    /\ \A r \in Reqs : pc[r] = "responded"
    /\ st[1] = "Failed"
    /\ raised[1] = ExhaustedExc
    /\ response[1].status = 500
    /\ Len(CallsOf(1)) = 3
    /\ response[2].status = 200
    /\ Len(CallsOf(2)) = 2
    /\ attempt[2] = 1

====
